---- MODULE Spec2Model ----
(***************************************************************************)
(* Selector normalisation and hierarchy location of the security gates     *)
(* (kubesec, whispers).  A JavaScript string is a sequence of one-character *)
(* strings, so that indexOf, slice, split, replaceAll, trim and includes    *)
(* are computed character by character as the source computes them.        *)
(***************************************************************************)
EXTENDS Integers, Sequences, FiniteSets, TLC

VARIABLES
    \* locator runs
    document,        \* the Document the caller read (never reassigned by the caller)
    searchSentence,  \* the segment sequence of the lookups
    fileLines,       \* the lines of the file as they were read (history)
    \* locator runs and gate runs
    documentText,    \* the caller's documentText: the buffer handed to the next lookup
    lookups,         \* the locator calls made so far, [arg, segs, result, ...], in call order
    \* normaliser runs
    selector,        \* the raw selector / secret fragment
    dialect,         \* "kubesec" (structural path) or "whispers" (literal fragment)
    truncated,       \* kubesec: the selector as removeInvalidCharctersInSentence returned it
    segments,        \* the segment sequence produced
    threw,           \* TRUE iff normalisation raised a TypeError
    npc,             \* "start" | "done" ; "off" outside normaliser runs
    \* gate runs
    fileText,        \* file name -> text of the file on disk
    kubesecResult,   \* the findings handed to showTextDocumentWithErrorsKubesec
    whispersResultArr, \* the scanner's answer: one [name, secrets] per file
    microtasks,      \* the event loop's queue of pending continuations (FIFO)
    secrets,         \* scanData: secrets.data[0].result, the FileMessages pushed so far
    resultNumber,    \* scanData: the shared counter of the per-file callbacks
    shown,           \* the information messages shown to the user, in order
    highlights,      \* the (line, numOfTabs) locations highlighted and jumped to
    rejected,        \* the callbacks that ended in an unhandled rejection
    gpc,             \* gate -> "idle" | "started" | "resolved" ; "off" outside gate runs
    \* one locator call, line by line
    scan,            \* [pc, i, t, parentDepth, examined, result]: the pass in progress
    \* Gate objects and the settings they persist
    gates,           \* GatesProvider.gates: the labels of the gates constructed, in order
    isActive,        \* label -> the gate's public isActive (the constructor's argument)
    _isActive,       \* label -> the gate's private _isActive
    templateGateActive, \* the value of the context key as last issued
    settings,        \* the persisted activity settings: a set of <<label, value>>
    updates,         \* the configuration updates requested and not yet completed (FIFO)
    lastSetIsActive, \* the last setIsActive call: [made, label, value]
    lastCommand,     \* the last command run on the gates
    commands,        \* the number of commands run
    \* GateFunctions.getFiles and the files of a CustomGate
    files,           \* CustomGate.files: the saved files not yet handed to a scan
    workspaceFolders, \* the paths of the workspace folders
    searchSettings,  \* the GetFileSettings of a getFiles call: [fileExtension, pathToSearch]
    _files,          \* what getFiles returned
    savedFiles,      \* the files list as it was handed to the last getFiles call
    fpc,             \* "start" | "done" ; "off" outside getFiles runs
    \* one CustomGate
    gateScanData,    \* [defined, data]: the gate's results, undefined until a scan has given them
    listeners,       \* the number of save listeners the gate has registered
    scans,           \* the scanData promises not yet resolved: [then, candidates, id]
    scanCount,       \* the number of scans started
    thrown,          \* the operations of the gate that ended in a TypeError
    lastSave,        \* the last save event: [made, pushed, refreshed]
    lastRefresh,     \* the last refresh that went through: [made, before, saved, id]
    children         \* what the last getMoreChildren returned: [kind, labels]

locVars == <<document, searchSentence, fileLines>>
normVars == <<selector, dialect, truncated, segments, threw, npc>>
gateVars == <<fileText, kubesecResult, whispersResultArr, microtasks, secrets,
              resultNumber, shown, highlights, rejected, gpc>>

scanVars == <<scan>>
gateObjVars == <<gates, isActive, _isActive, templateGateActive, settings, updates,
                 lastSetIsActive, lastCommand, commands>>
filesVars == <<files, workspaceFolders, searchSettings, _files, savedFiles, fpc>>
customVars == <<gateScanData, listeners, scans, scanCount, thrown, lastSave, lastRefresh,
                children>>
extVars == <<scanVars, gateObjVars, filesVars, customVars>>

coreVars == <<locVars, documentText, lookups, normVars, gateVars>>

vars == <<coreVars, extVars>>

(***************************************************************************)
(* Bounds of the model                                                     *)
(***************************************************************************)
MaxLines == 3
MaxSegments == 2
MaxLookups == 2
MaxPieces == 3

(***************************************************************************)
(* Strings                                                                 *)
(***************************************************************************)
Min(S) == CHOOSE x \in S : \A y \in S : x <= y

\* JS whitespace that String.prototype.trim removes (the members that occur here)
WhiteSpace == {" ", "\t", "\n", "\r"}

\* String.prototype.indexOf(pattern): zero-based, -1 when absent
IndexOf(s, p) ==
    LET hits == {i \in 0..(Len(s) - Len(p)) : SubSeq(s, i + 1, i + Len(p)) = p}
    IN  IF hits = {} THEN -1 ELSE Min(hits)

\* String.prototype.includes
Includes(s, p) == IndexOf(s, p) # -1

\* s.slice(0, n) for n >= 0
SliceTo(s, n) == SubSeq(s, 1, IF n < Len(s) THEN n ELSE Len(s))

\* s.slice(n, s.length) for n >= 0
SliceFrom(s, n) == SubSeq(s, n + 1, Len(s))

\* s.slice(0, -n)
SliceDropLast(s, n) == SubSeq(s, 1, Len(s) - n)

\* s.replaceAll(c, '') for a one-character c
RemoveAll(s, c) == SelectSeq(s, LAMBDA x : x # c)

\* s.split(c) for a one-character separator: never the empty array
RECURSIVE Split(_, _)
Split(s, c) ==
    LET i == IndexOf(s, <<c>>)
    IN  IF i = -1 THEN <<s>>
        ELSE <<SliceTo(s, i)>> \o Split(SliceFrom(s, i + 1), c)

RECURSIVE TrimStart(_)
TrimStart(s) ==
    IF s # <<>> /\ Head(s) \in WhiteSpace THEN TrimStart(Tail(s)) ELSE s

RECURSIVE TrimEnd(_)
TrimEnd(s) ==
    IF s # <<>> /\ s[Len(s)] \in WhiteSpace THEN TrimEnd(SubSeq(s, 1, Len(s) - 1)) ELSE s

\* String.prototype.trim
Trim(s) == TrimEnd(TrimStart(s))

RECURSIVE Concat(_)
Concat(ss) == IF ss = <<>> THEN <<>> ELSE Head(ss) \o Concat(Tail(ss))

\* all sequences over S of length 0..n
SeqsUpTo(S, n) == UNION {[1..k -> S] : k \in 0..n}

(***************************************************************************)
(* Names that occur in the documents and selectors                         *)
(***************************************************************************)
K_spec == <<"s", "p", "e", "c">>
K_containers == <<"c", "o", "n", "t", "a", "i", "n", "e", "r", "s">>
K_securityContext ==
    <<"s", "e", "c", "u", "r", "i", "t", "y", "C", "o", "n", "t", "e", "x", "t">>
K_runAsUser == <<"r", "u", "n", "A", "s", "U", "s", "e", "r">>
K_volumes == <<"v", "o", "l", "u", "m", "e", "s">>
K_metadata == <<"m", "e", "t", "a", "d", "a", "t", "a">>
K_labels == <<"l", "a", "b", "e", "l", "s">>
K_app == <<"a", "p", "p">>
K_a == <<"a">>
K_b == <<"b">>

(***************************************************************************)
(* HierarchyLocator (search.hierarchySearchInFile)                         *)
(* A Document is a working view [base, lines]: lines is the buffer and     *)
(* base the number of lines of the original already consumed in front of   *)
(* it, which is what gives every result its absolute line number.          *)
(***************************************************************************)
IndentChars == {" ", "\t"}

MkDocument(lines) == [base |-> 0, lines |-> lines]

\* number of leading indentation characters of a line
RECURSIVE IndentWidth(_)
IndentWidth(line) ==
    IF line # <<>> /\ Head(line) \in IndentChars THEN 1 + IndentWidth(Tail(line)) ELSE 0

ListMarker == <<"-", " ">>

\* the line without its indentation and without a leading list marker
DeIndent(line) ==
    LET t == SliceFrom(line, IndentWidth(line))
    IN  IF SliceTo(t, 2) = ListMarker THEN SliceFrom(t, 2) ELSE t

\* the declared key token of a line: the de-indented text up to its ':'
KeyToken(line) ==
    LET t == DeIndent(line)
        i == IndexOf(t, <<":">>)
    IN  IF i = -1 THEN t ELSE SliceTo(t, i)

\* a match by substring search: the name occurs somewhere in the line
MatchesAnywhere(line, segment) == Includes(line, segment)

\* a line matches a segment iff its key token equals the segment's name
Matches(line, segment) == KeyToken(line) = segment

\* drop the enclosing indentation widths that are not narrower than w
RECURSIVE PopTo(_, _)
PopTo(stack, w) ==
    IF stack # <<>> /\ stack[Len(stack)] >= w
    THEN PopTo(SubSeq(stack, 1, Len(stack) - 1), w)
    ELSE stack

\* the nesting depth of every line, in structural units: the number of
\* enclosing lines with a strictly narrower indentation
RECURSIVE DepthsFrom(_, _, _)
DepthsFrom(lines, i, stack) ==
    IF i > Len(lines) THEN <<>>
    ELSE LET w == IndentWidth(lines[i])
             st == PopTo(stack, w)
         IN  <<Len(st)>> \o DepthsFrom(lines, i + 1, st \o <<w>>)

\* depth as a raw count of two-character indentation units
DepthsByWidth(lines) == [i \in 1..Len(lines) |-> IndentWidth(lines[i]) \div 2]

Depths(lines) == DepthsFrom(lines, 1, <<>>)

NotFound(doc) == [requestedLine |-> -1, numOfTabs |-> 0, fileToSearchIn |-> doc]

\* a terminal match reported with a one-based line number
FoundAtOneBased(doc, i, depth) ==
    [requestedLine |-> doc.base + i,
     numOfTabs |-> depth,
     fileToSearchIn |-> [base |-> doc.base + i,
                         lines |-> SubSeq(doc.lines, i + 1, Len(doc.lines))]]

\* a terminal match at buffer position i: absolute line, depth, and the buffer
\* with everything up to and including the matched line removed
FoundAt(doc, i, depth) ==
    [requestedLine |-> doc.base + i - 1,
     numOfTabs |-> depth,
     fileToSearchIn |-> [base |-> doc.base + i,
                         lines |-> SubSeq(doc.lines, i + 1, Len(doc.lines))]]

\* a pass that, when the lines under a matched line do not hold the rest of
\* the sequence, goes on to a later line that satisfies the same segment
RECURSIVE ScanRetrying(_, _, _, _, _, _)
ScanRetrying(doc, depths, segs, i, t, parentDepth) ==
    IF i > Len(doc.lines) THEN NotFound(doc)
    ELSE IF depths[i] <= parentDepth THEN NotFound(doc)
    ELSE IF Matches(doc.lines[i], segs[t])
         THEN IF t = Len(segs) THEN FoundAt(doc, i, depths[i])
              ELSE LET below == ScanRetrying(doc, depths, segs, i + 1, t + 1, depths[i])
                   IN  IF below.requestedLine # -1 THEN below
                       ELSE ScanRetrying(doc, depths, segs, i + 1, t, parentDepth)
    ELSE ScanRetrying(doc, depths, segs, i + 1, t, parentDepth)

\* a pass whose child region ends only at a line shallower than the parent,
\* so that the parent's later siblings are searched too
RECURSIVE ScanSiblings(_, _, _, _, _, _)
ScanSiblings(doc, depths, segs, i, t, parentDepth) ==
    IF i > Len(doc.lines) THEN NotFound(doc)
    ELSE IF depths[i] < parentDepth THEN NotFound(doc)
    ELSE IF Matches(doc.lines[i], segs[t])
         THEN IF t = Len(segs) THEN FoundAt(doc, i, depths[i])
              ELSE ScanSiblings(doc, depths, segs, i + 1, t + 1, depths[i])
    ELSE ScanSiblings(doc, depths, segs, i + 1, t, parentDepth)

\* a pass that lets any later line satisfy the next segment
RECURSIVE ScanWholeDocument(_, _, _, _, _, _)
ScanWholeDocument(doc, depths, segs, i, t, parentDepth) ==
    IF i > Len(doc.lines) THEN NotFound(doc)
    ELSE IF Matches(doc.lines[i], segs[t])
         THEN IF t = Len(segs) THEN FoundAt(doc, i, depths[i])
              ELSE ScanWholeDocument(doc, depths, segs, i + 1, t + 1, depths[i])
    ELSE ScanWholeDocument(doc, depths, segs, i + 1, t, parentDepth)

\* the single pass: cursor i, target segment t, depth of the line that matched
\* segment t-1 (parentDepth, -1 while t = 1)
RECURSIVE Scan(_, _, _, _, _, _)
Scan(doc, depths, segs, i, t, parentDepth) ==
    IF i > Len(doc.lines) THEN NotFound(doc)
    ELSE IF depths[i] <= parentDepth THEN NotFound(doc)
    ELSE IF Matches(doc.lines[i], segs[t])
         THEN IF t = Len(segs) THEN FoundAt(doc, i, depths[i])
              ELSE Scan(doc, depths, segs, i + 1, t + 1, depths[i])
    ELSE Scan(doc, depths, segs, i + 1, t, parentDepth)

\* a search for which the empty sequence is satisfied at once, by the first
\* line of the buffer
hierarchySearchEmptyMatchesFirst(doc, segs) ==
    IF segs = <<>>
    THEN IF doc.lines = <<>> THEN NotFound(doc)
         ELSE FoundAt(doc, 1, Depths(doc.lines)[1])
    ELSE Scan(doc, Depths(doc.lines), segs, 1, 1, -1)

\* the empty segment sequence fails without scanning
hierarchySearchInFile(doc, segs) ==
    IF segs = <<>> THEN NotFound(doc)
    ELSE Scan(doc, Depths(doc.lines), segs, 1, 1, -1)

\* the consumed lines spliced out of the array that was passed in
DocumentSplicedBySearch(doc, segs) == hierarchySearchInFile(doc, segs).fileToSearchIn

\* the Document that was passed in, as the call leaves it: untouched
DocumentAfterSearch(doc, segs) == doc

(***************************************************************************)
(* Documents and segment sequences of the locator runs                     *)
(***************************************************************************)
Indent(n) == [k \in 1..n |-> " "]

\* a mapping line "<indent>[- ]<key>:"
Line(width, marker, key) ==
    Indent(width) \o (IF marker THEN ListMarker ELSE <<>>) \o key \o <<":">>

ScenarioLines ==
    << Line(0, FALSE, K_spec),
       Line(2, FALSE, K_containers),
       Line(4, TRUE, K_securityContext),
       Line(8, FALSE, K_runAsUser) \o <<" ", "2", "0", "0", "0", "0">> >>

ScenarioSegments == <<K_spec, K_containers, K_securityContext, K_runAsUser>>

KeyNames == {K_a, K_b}
IndentWidths == {0, 2, 4}

\* list items are generated at the first nesting level only
ListItemWidths == {2}

LineChoices ==
    {Line(w, FALSE, k) : w \in IndentWidths, k \in KeyNames}
        \cup {Line(w, TRUE, k) : w \in ListItemWidths, k \in KeyNames}

\* lines that hold a name elsewhere than as their key: in the value
\* ("b: a", "a: b") or inside a longer key ("ab:", "  ba:")
ValueLineChoices ==
    { K_b \o <<":", " ">> \o K_a,
      K_a \o <<":", " ">> \o K_b,
      Line(0, FALSE, K_a \o K_b),
      Line(2, FALSE, K_b \o K_a) }

DocumentChoices ==
    SeqsUpTo(LineChoices, MaxLines)
        \cup SeqsUpTo(ValueLineChoices, MaxLines)
        \cup {ScenarioLines}

SegmentChoices ==
    SeqsUpTo(KeyNames, MaxSegments)
        \cup {ScenarioSegments, <<K_spec, K_volumes>>, <<K_runAsUser>>, <<K_volumes>>}

GatesIdle ==
    /\ fileText = <<>>
    /\ kubesecResult = <<>>
    /\ whispersResultArr = <<>>
    /\ microtasks = <<>>
    /\ secrets = <<>>
    /\ resultNumber = 0
    /\ shown = <<>>
    /\ highlights = <<>>
    /\ rejected = {}
    /\ gpc = [kubesec |-> "off", whispers |-> "off"]

\* no locator call is being stepped through
ScanIdle ==
    scan = [pc |-> "off", i |-> 0, t |-> 0, parentDepth |-> -1, examined |-> <<>>,
            result |-> [requestedLine |-> -1, numOfTabs |-> 0,
                        fileToSearchIn |-> [base |-> 0, lines |-> <<>>]]]

\* no Gate object is being followed
GateObjectsIdle ==
    /\ gates = <<>>
    /\ isActive = <<>>
    /\ _isActive = <<>>
    /\ templateGateActive = FALSE
    /\ settings = {}
    /\ updates = <<>>
    /\ lastSetIsActive = [made |-> FALSE, label |-> "", value |-> FALSE]
    /\ lastCommand = "none"
    /\ commands = 0

\* no getFiles call is being followed
FilesIdle ==
    /\ files = <<>>
    /\ workspaceFolders = <<>>
    /\ searchSettings = [fileExtension |-> <<>>,
                         pathToSearch |-> [defined |-> FALSE, value |-> <<>>]]
    /\ _files = <<>>
    /\ savedFiles = <<>>
    /\ fpc = "off"

\* no CustomGate is being followed
CustomGateIdle ==
    /\ gateScanData = [defined |-> FALSE, data |-> <<>>]
    /\ listeners = 0
    /\ scans = <<>>
    /\ scanCount = 0
    /\ thrown = {}
    /\ lastSave = [made |-> FALSE, scheme |-> "", pushed |-> 0, refreshed |-> 0]
    /\ lastRefresh = [made |-> FALSE, before |-> <<>>, saved |-> <<>>, id |-> 0,
                      after |-> <<>>]
    /\ children = [kind |-> "none", labels |-> <<>>, active |-> FALSE,
                   nonEmpty |-> FALSE]

ExtIdle == ScanIdle /\ GateObjectsIdle /\ FilesIdle /\ CustomGateIdle

NormaliserIdle ==
    /\ selector = <<>>
    /\ dialect = "none"
    /\ truncated = <<>>
    /\ segments = <<>>
    /\ threw = FALSE
    /\ npc = "off"

InitLocate ==
    /\ fileLines \in DocumentChoices
    /\ document = MkDocument(fileLines)
    /\ documentText = document
    /\ searchSentence \in SegmentChoices
    /\ lookups = <<>>
    /\ NormaliserIdle
    /\ GatesIdle
    /\ ExtIdle

\* the caller's next buffer: documentText = searchResults.fileToSearchIn
ThreadStale(buffer, result) == buffer

ThreadForward(buffer, result) == result.fileToSearchIn

\* one lookup, the caller threading the returned buffer into the next one.
\* The first call is handed the array that was read; later calls the buffer
\* the previous call returned.
Lookup ==
    /\ npc = "off"
    /\ Len(lookups) < MaxLookups
    /\ LET r == hierarchySearchInFile(documentText, searchSentence)
       IN  /\ lookups' = Append(lookups,
                  [arg |-> documentText, segs |-> searchSentence, result |-> r])
           /\ documentText' = ThreadForward(documentText, r)
           /\ document' = IF lookups = <<>>
                          THEN DocumentAfterSearch(document, searchSentence)
                          ELSE document
    /\ UNCHANGED <<extVars, searchSentence, fileLines, normVars, gateVars>>

NextLocate == Lookup

SpecLocate == InitLocate /\ [][NextLocate]_vars

(***************************************************************************)
(* SelectorNormalizer: kubesec.arrangeKubesecSelectorBeforeSearch and the  *)
(* whispers gate's sec.split(' ')[0]                                       *)
(***************************************************************************)
kubesecSelectorInvalidCharcters == << <<"|">>, <<"=", "=">>, <<"-">> >>

\* a removal that cuts at the first token of the list that occurs and stops
removeFirstListedInvalidCharcter(searchSentenceIn, invalidCharcters) ==
    LET occurring == {k \in 1..Len(invalidCharcters) :
                         IndexOf(searchSentenceIn, invalidCharcters[k]) # -1}
    IN  IF occurring = {} THEN searchSentenceIn
        ELSE SliceTo(searchSentenceIn,
                     IndexOf(searchSentenceIn, invalidCharcters[Min(occurring)]))

\* invalidCharcters.forEach: each token truncates what the ones before left
RECURSIVE removeInvalidCharctersInSentence(_, _)
removeInvalidCharctersInSentence(searchSentenceIn, invalidCharcters) ==
    IF invalidCharcters = <<>> THEN searchSentenceIn
    ELSE LET indexOfInvalidCharacter == IndexOf(searchSentenceIn, Head(invalidCharcters))
         IN  removeInvalidCharctersInSentence(
                 IF indexOfInvalidCharacter # -1
                 THEN SliceTo(searchSentenceIn, indexOfInvalidCharacter)
                 ELSE searchSentenceIn,
                 Tail(invalidCharcters))

\* searchSentence[0] === '.' ? searchSentence.slice(1) : searchSentence
DropLeadingDot(s) == IF s # <<>> /\ Head(s) = "." THEN SliceFrom(s, 1) ELSE s

\* the tokens before the array-marker and metadata rules:
\* removeInvalidCharctersInSentence(...).replaceAll(' ', '').split('.')
SelectorTokens(s) ==
    Split(RemoveAll(removeInvalidCharctersInSentence(DropLeadingDot(s),
                                                     kubesecSelectorInvalidCharcters),
                    " "),
          ".")

ContainersMarker == K_containers \o <<"[", "]">>

\* if (split[0].includes("containers[]")) split[0] = split[0].trim().slice(0, -2)
StripArrayMarker(tokens) ==
    IF Includes(tokens[1], ContainersMarker)
    THEN [tokens EXCEPT ![1] = SliceDropLast(Trim(tokens[1]), 2)]
    ELSE tokens

\* if (split[0].includes("metadata")) split = ["metadata"]
CollapseMetadata(tokens) ==
    IF Includes(tokens[1], K_metadata) THEN <<K_metadata>> ELSE tokens

\* [threw, value]: reading .includes of an absent first token is a TypeError
arrangeKubesecSelectorBeforeSearch(fileToSearchIn, searchSentenceIn) ==
    LET searchSentenceSplit == SelectorTokens(searchSentenceIn)
    IN  IF searchSentenceSplit = <<>>
        THEN [threw |-> TRUE, value |-> <<>>]
        ELSE [threw |-> FALSE,
              value |-> CollapseMetadata(StripArrayMarker(searchSentenceSplit))]

\* [sec.split(' ')[0]]
whispersSearchSentence(sec) == <<Split(sec, " ")[1]>>

(***************************************************************************)
(* Selectors of the normaliser runs: every concatenation of up to          *)
(* MaxPieces pieces, and the selectors the scanners' documentation shows   *)
(***************************************************************************)
ArrayMarker == <<"[", "]">>

Pieces ==
    { <<".">>, <<" ">>, <<"\t">>, <<"-">>, <<"|">>, <<"=", "=">>, <<"=">>,
      K_spec, ContainersMarker, K_metadata, K_a, ArrayMarker }

RunAsUserSelector ==
    Concat(<< <<".">>, K_spec, <<" ", ".">>, K_containers, ArrayMarker,
              <<" ", ".">>, K_securityContext, <<" ", ".">>, K_runAsUser,
              <<" ", "-", "g", "t", " ", "1", "0", "0", "0", "0">> >>)

ContainersFirstSelector ==
    Concat(<< K_containers, ArrayMarker, <<" ", ".">>, K_securityContext,
              <<" ", ".">>, K_runAsUser,
              <<" ", "-", "g", "t", " ", "1", "0", "0", "0", "0">> >>)

MetadataSelector ==
    Concat(<< <<".">>, K_metadata, <<" ", ".">>, K_labels, <<" ", ".">>, K_app >>)

SpecMetadataSelector ==
    Concat(<< <<".">>, K_spec, <<" ", ".">>, K_metadata >>)

SecretToken ==
    <<"A", "K", "I", "A", "E", "X", "A", "M", "P", "L", "E", "1", "2", "3">>

SecretFragment ==
    SecretToken \o <<" ">> \o
    <<"a", "w", "s", "_", "a", "c", "c", "e", "s", "s", "_", "k", "e", "y", "_", "i", "d">>

SelectorChoices ==
    {Concat(ps) : ps \in SeqsUpTo(Pieces, MaxPieces)}
        \cup {RunAsUserSelector, ContainersFirstSelector, MetadataSelector,
              SpecMetadataSelector}

FragmentPieces == { <<" ">>, K_a, K_b, <<"x">> }

FragmentChoices ==
    {Concat(ps) : ps \in SeqsUpTo(FragmentPieces, MaxPieces)} \cup {SecretFragment}

LocatorIdle ==
    /\ fileLines = <<>>
    /\ document = MkDocument(<<>>)
    /\ searchSentence = <<>>

NoLookups ==
    /\ documentText = MkDocument(<<>>)
    /\ lookups = <<>>

InitNormalize ==
    /\ dialect \in {"kubesec", "whispers"}
    /\ selector \in IF dialect = "kubesec" THEN SelectorChoices ELSE FragmentChoices
    /\ truncated = <<>>
    /\ segments = <<>>
    /\ threw = FALSE
    /\ npc = "start"
    /\ LocatorIdle
    /\ NoLookups
    /\ GatesIdle
    /\ ExtIdle

\* kubesec: arrangeKubesecSelectorBeforeSearch(documentText, res['selector'])
ArrangeKubesecSelector ==
    /\ npc = "start"
    /\ dialect = "kubesec"
    /\ truncated' = removeInvalidCharctersInSentence(DropLeadingDot(selector),
                                                    kubesecSelectorInvalidCharcters)
    /\ LET r == arrangeKubesecSelectorBeforeSearch(documentText, selector)
       IN  /\ segments' = r.value
           /\ threw' = r.threw
    /\ npc' = "done"
    /\ UNCHANGED <<extVars, locVars, documentText, lookups, selector, dialect, gateVars>>

\* whispers: the segment sequence handed to the locator for one secret
TakeWhispersToken ==
    /\ npc = "start"
    /\ dialect = "whispers"
    /\ segments' = whispersSearchSentence(selector)
    /\ npc' = "done"
    /\ UNCHANGED <<extVars, locVars, documentText, lookups, selector, dialect, truncated, threw,
                   gateVars>>

NextNormalize == ArrangeKubesecSelector \/ TakeWhispersToken

SpecNormalize == InitNormalize /\ [][NextNormalize]_vars

(***************************************************************************)
(* The gates: kubesec.showTextDocumentWithErrorsKubesec and                *)
(* WhispersGate.scanData.  Both run their per-finding / per-file work in   *)
(* forEach(async ...) callbacks; a callback runs up to its await, and its  *)
(* continuation is a microtask that the event loop runs in FIFO order.     *)
(***************************************************************************)
MaxFindings == 2
MaxSecrets == 2

\* readFileByLines: document.trim().split('\n')
readFileByLines(text) == Split(Trim(text), "\n")

\* the text of a file made of the given lines, each ended by a newline
RECURSIVE TextOf(_)
TextOf(lines) ==
    IF lines = <<>> THEN <<>> ELSE Head(lines) \o <<"\n">> \o TextOf(Tail(lines))

FileNames == {"f", "g"}
KubesecFile == "f"

\* the third ends with a list item, the last begins with a blank line
FileTextChoices ==
    { TextOf(<<Line(0, FALSE, K_a), Line(2, FALSE, K_b), Line(2, FALSE, K_b)>>),
      TextOf(<<Line(0, FALSE, K_b), Line(0, FALSE, K_a), Line(0, FALSE, K_b)>>),
      TextOf(<<Line(0, FALSE, K_a), Line(2, TRUE, K_b)>>),
      <<"\n">> \o TextOf(<<Line(0, FALSE, K_a), Line(2, FALSE, K_b)>>) }

KubesecSelectorChoices ==
    { <<".", "a", " ", ".", "b">>, <<"b">> }

SecretChoices ==
    { <<"b", " ", "x">>, <<"a", " ", "x">> }

\* the messages shown to the user are kept as <<text, the selector it is about>>
ReadyMessage == "Whispers is ready!"
NotFoundMessage == " not found!"

InitGates ==
    /\ fileText \in [FileNames -> FileTextChoices]
    /\ kubesecResult \in SeqsUpTo([selector : KubesecSelectorChoices], MaxFindings)
    /\ whispersResultArr \in
           { << [name |-> "f", secrets |-> sf], [name |-> "g", secrets |-> sg] >> :
                 sf \in SeqsUpTo(SecretChoices, MaxSecrets),
                 sg \in SeqsUpTo(SecretChoices, MaxSecrets) }
    /\ microtasks = <<>>
    /\ secrets = <<>>
    /\ resultNumber = 0
    /\ shown = <<>>
    /\ highlights = <<>>
    /\ rejected = {}
    /\ gpc = [kubesec |-> "idle", whispers |-> "idle"]
    /\ LocatorIdle
    /\ NoLookups
    /\ NormaliserIdle
    /\ ExtIdle

\* kubesecResult.forEach(async (res) => { documentText = await readFileByLines(...)
\* every callback reads the file and suspends; the function then returns
showTextDocumentWithErrorsKubesec ==
    /\ gpc.kubesec = "idle"
    /\ microtasks = <<>>
    /\ microtasks' =
           [i \in 1..Len(kubesecResult) |->
               [kind |-> "readFileByLines", gate |-> "kubesec", idx |-> i,
                file |-> KubesecFile, text |-> fileText[KubesecFile]]]
    /\ gpc' = [gpc EXCEPT !.kubesec = "started"]
    /\ UNCHANGED <<extVars, locVars, documentText, lookups, normVars, fileText, kubesecResult,
                   whispersResultArr, secrets, resultNumber, shown, highlights, rejected>>

\* the indices of the scanner's files that have secrets, in order
RECURSIVE WithSecrets(_, _)
WithSecrets(arr, i) ==
    IF i > Len(arr) THEN <<>>
    ELSE (IF Len(arr[i].secrets) # 0 THEN <<i>> ELSE <<>>) \o WithSecrets(arr, i + 1)

\* scanData from the scanner's answer on: each callback of a file with secrets
\* pushes the file's FileMessages, reads the file and suspends; then the ready
\* message is shown and secrets is returned (the promise's then is queued)
scanData ==
    /\ gpc.whispers = "idle"
    /\ microtasks = <<>>
    /\ LET withSecrets == WithSecrets(whispersResultArr, 1)
       IN  /\ secrets' = [k \in 1..Len(withSecrets) |->
                             [filePath |-> whispersResultArr[withSecrets[k]].name,
                              messages |-> <<>>]]
           /\ microtasks' =
                  [k \in 1..Len(withSecrets) |->
                      [kind |-> "readFileByLines", gate |-> "whispers", idx |-> withSecrets[k],
                       file |-> whispersResultArr[withSecrets[k]].name,
                       text |-> fileText[whispersResultArr[withSecrets[k]].name]]]
                  \o << [kind |-> "scanDataThen"] >>
    /\ resultNumber' = 0
    /\ shown' = Append(shown, <<ReadyMessage, <<>>>>)
    /\ gpc' = [gpc EXCEPT !.whispers = "started"]
    /\ UNCHANGED <<extVars, locVars, documentText, lookups, normVars, fileText, kubesecResult,
                   whispersResultArr, highlights, rejected>>

\* the continuation inside readFileByLines: trim, split, and resolve, which
\* queues the continuation of the callback that awaits it
ResumeReadFileByLines ==
    /\ microtasks # <<>>
    /\ Head(microtasks).kind = "readFileByLines"
    /\ LET m == Head(microtasks)
       IN  microtasks' = Append(Tail(microtasks),
               [kind |-> IF m.gate = "kubesec" THEN "kubesecCallback" ELSE "whispersCallback",
                idx |-> m.idx, file |-> m.file, lines |-> readFileByLines(m.text)])
    /\ UNCHANGED <<extVars, locVars, documentText, lookups, normVars, fileText, kubesecResult,
                   whispersResultArr, secrets, resultNumber, shown, highlights,
                   rejected, gpc>>

\* the rest of a kubesec callback: documentText = <lines read>; normalise;
\* search; show "not found" or highlight and jump
ResumeKubesecCallback ==
    /\ microtasks # <<>>
    /\ Head(microtasks).kind = "kubesecCallback"
    /\ LET m == Head(microtasks)
           text == MkDocument(m.lines)
           searchSentenceIn == kubesecResult[m.idx].selector
           ready == arrangeKubesecSelectorBeforeSearch(text, searchSentenceIn)
           searchResult == hierarchySearchInFile(text, ready.value)
       IN  /\ documentText' = text
           /\ IF ready.threw
              THEN /\ rejected' = rejected \cup {<<"kubesec", m.idx>>}
                   /\ UNCHANGED <<lookups, shown, highlights>>
              ELSE /\ lookups' = Append(lookups,
                          [gate |-> "kubesec", file |-> m.file, idx |-> m.idx,
                           arg |-> text, segs |-> ready.value, result |-> searchResult])
                   /\ IF searchResult.requestedLine = -1
                      THEN /\ shown' = Append(shown, <<NotFoundMessage, searchSentenceIn>>)
                           /\ UNCHANGED highlights
                      ELSE /\ highlights' = Append(highlights,
                                  [gate |-> "kubesec", file |-> m.file,
                                   requestedLine |-> searchResult.requestedLine,
                                   numOfTabs |-> searchResult.numOfTabs])
                           /\ UNCHANGED shown
                   /\ UNCHANGED rejected
    /\ microtasks' = Tail(microtasks)
    /\ UNCHANGED <<extVars, locVars, normVars, fileText, kubesecResult, whispersResultArr,
                   secrets, resultNumber, gpc>>

\* res['secrets'].forEach: one lookup per secret, each on the buffer the
\* previous one returned; [arg, segs, result, sec] per secret
RECURSIVE LocateSecrets(_, _)
LocateSecrets(secs, buffer) ==
    IF secs = <<>> THEN <<>>
    ELSE LET segs == whispersSearchSentence(Head(secs))
             searchResults == hierarchySearchInFile(buffer, segs)
         IN  << [arg |-> buffer, segs |-> segs, result |-> searchResults,
                 sec |-> Head(secs)] >>
             \o LocateSecrets(Tail(secs), ThreadForward(buffer, searchResults))

\* a callback that leaves the counter where it found it
SameResultNumber(n) == n

\* resultNumber++ (next file)
NextResultNumber(n) == n + 1

\* the rest of a whispers callback: locate every secret of the file and push
\* it into secrets.data[0].result[resultNumber].messages; then resultNumber++.
\* Pushing into an entry that does not exist is a TypeError: the callback ends
\* there, after its first lookup.
ResumeWhispersCallback ==
    /\ microtasks # <<>>
    /\ Head(microtasks).kind = "whispersCallback"
    /\ LET m == Head(microtasks)
           located == LocateSecrets(whispersResultArr[m.idx].secrets, MkDocument(m.lines))
           logged == [k \in 1..Len(located) |->
                         [gate |-> "whispers", file |-> m.file, idx |-> k,
                          arg |-> located[k].arg, segs |-> located[k].segs,
                          result |-> located[k].result]]
       IN  IF resultNumber + 1 \in 1..Len(secrets)
           THEN /\ lookups' = lookups \o logged
                /\ secrets' = [secrets EXCEPT ![resultNumber + 1].messages =
                       @ \o [k \in 1..Len(located) |->
                                [lineNumber |-> located[k].result.requestedLine,
                                 columnNumber |-> 0,
                                 message |-> located[k].sec]]]
                /\ resultNumber' = NextResultNumber(resultNumber)
                /\ UNCHANGED rejected
           ELSE /\ lookups' = lookups \o SubSeq(logged, 1, 1)
                /\ rejected' = rejected \cup {<<"whispers", m.idx>>}
                /\ UNCHANGED <<secrets, resultNumber>>
    /\ microtasks' = Tail(microtasks)
    /\ UNCHANGED <<extVars, locVars, documentText, normVars, fileText, kubesecResult,
                   whispersResultArr, shown, highlights, gpc>>

\* the then of scanData's promise: the gate takes the returned GateData
ResolveScanData ==
    /\ microtasks # <<>>
    /\ Head(microtasks).kind = "scanDataThen"
    /\ microtasks' = Tail(microtasks)
    /\ gpc' = [gpc EXCEPT !.whispers = "resolved"]
    /\ UNCHANGED <<extVars, locVars, documentText, lookups, normVars, fileText, kubesecResult,
                   whispersResultArr, secrets, resultNumber, shown, highlights, rejected>>

Next ==
    \/ showTextDocumentWithErrorsKubesec
    \/ scanData
    \/ ResumeReadFileByLines
    \/ ResumeKubesecCallback
    \/ ResumeWhispersCallback
    \/ ResolveScanData

Init == InitGates

Spec == Init /\ [][Next]_vars

(***************************************************************************)
(* One call of the locator, line by line: the pass of Scan taken one       *)
(* examined line at a time.  scan.examined counts, for every line of the   *)
(* buffer, how often the pass has looked at it.                            *)
(***************************************************************************)
\* the cursor after a line that matched a non-final segment, examined again
\* for the next segment
CursorStaysOnMatch(i, matched) == IF matched THEN i ELSE i + 1

\* the cursor after line i has been examined
NextCursor(i, matched) == i + 1

ScanLineChoices ==
    {Line(w, FALSE, k) : w \in {0, 2}, k \in KeyNames}

ScanDocumentChoices == SeqsUpTo(ScanLineChoices, MaxLines)

ScanSegmentChoices == SeqsUpTo(KeyNames, MaxSegments)

InitScan ==
    /\ fileLines \in ScanDocumentChoices
    /\ document = MkDocument(fileLines)
    /\ documentText = document
    /\ searchSentence \in ScanSegmentChoices
    /\ lookups = <<>>
    /\ scan = [pc |-> "called", i |-> 0, t |-> 0, parentDepth |-> -1,
               examined |-> [j \in 1..Len(fileLines) |-> 0],
               result |-> NotFound(document)]
    /\ NormaliserIdle
    /\ GatesIdle
    /\ GateObjectsIdle
    /\ FilesIdle
    /\ CustomGateIdle

\* the call: the empty segment sequence fails at once, any other starts the
\* pass at the first line with the first segment
BeginScan ==
    /\ scan.pc = "called"
    /\ scan' = IF searchSentence = <<>>
               THEN [scan EXCEPT !.pc = "done", !.result = NotFound(document)]
               ELSE [scan EXCEPT !.pc = "scanning", !.i = 1, !.t = 1, !.parentDepth = -1]
    /\ UNCHANGED <<coreVars, gateObjVars, filesVars, customVars>>

\* one step of the pass: past the last line, or at a line that closes the
\* parent's child region, the call ends not found; a line that matches the
\* last segment ends it found; a line that matches another segment makes its
\* depth the parent depth; any other line is passed over
ExamineLine ==
    /\ scan.pc = "scanning"
    /\ LET i == scan.i
           depths == Depths(document.lines)
       IN  IF i > Len(document.lines)
           THEN scan' = [scan EXCEPT !.pc = "done", !.result = NotFound(document)]
           ELSE LET seen == [scan EXCEPT !.examined[i] = @ + 1]
                    matched == Matches(document.lines[i], searchSentence[scan.t])
                IN  IF depths[i] <= scan.parentDepth
                    THEN scan' = [seen EXCEPT !.pc = "done", !.result = NotFound(document)]
                    ELSE IF matched /\ scan.t = Len(searchSentence)
                    THEN scan' = [seen EXCEPT !.pc = "done",
                                              !.result = FoundAt(document, i, depths[i])]
                    ELSE IF matched
                    THEN scan' = [seen EXCEPT !.i = NextCursor(i, TRUE), !.t = @ + 1,
                                              !.parentDepth = depths[i]]
                    ELSE scan' = [seen EXCEPT !.i = NextCursor(i, FALSE)]
    /\ UNCHANGED <<coreVars, gateObjVars, filesVars, customVars>>

NextScan == BeginScan \/ ExamineLine

\* a call that has been made is run to its end
SpecScan == InitScan /\ [][NextScan]_vars /\ WF_vars(NextScan)

(***************************************************************************)
(* Gate (tree item classes/gate): construction, setIsActive, activate,     *)
(* deactivate, and GatesProvider.activeAllGates.  A configuration update   *)
(* is a request to the editor that completes later; until it has, the      *)
(* configuration that getConfiguration().get reads is the persisted one.   *)
(***************************************************************************)
MaxCommands == 3

GateLabels == {"kubesec", "TemplateAnalyzer", "whispers"}

\* this.isActive ? executeCommand('setContext','templateGateActive', true)
\*               : executeCommand('setContext','templateGateActive', false)
contextOfIsActive(label, value) == isActive[label]

\* { ...settings, ...{[this.label]: value} }
newSetting(current, label, value) ==
    {p \in current : p[1] # label} \cup {<<label, value>>}

\* the updates that setIsActive(value) of each of the gates, called one after
\* the other with no update completing in between, requests: each from the
\* settings as get() returns them, the persisted ones
updatesOfSetIsActive(current, labels, value) ==
    [k \in 1..Len(labels) |-> newSetting(current, labels[k], value)]

InitGateObjects ==
    /\ GateObjectsIdle
    /\ ScanIdle
    /\ FilesIdle
    /\ CustomGateIdle
    /\ LocatorIdle
    /\ NoLookups
    /\ NormaliserIdle
    /\ GatesIdle

\* Gate.setIsActive(value) of one gate, up to its await
SetIsActiveOf(label, value) ==
    /\ _isActive' = [_isActive EXCEPT ![label] = value]
    /\ templateGateActive' = contextOfIsActive(label, value)
    /\ updates' = updates \o updatesOfSetIsActive(settings, <<label>>, value)
    /\ lastSetIsActive' = [made |-> TRUE, label |-> label, value |-> value]

\* new Gate(label, ..., isActive): the fields, then this.setIsActive(isActive)
ConstructGate ==
    /\ commands < MaxCommands
    /\ \E label \in GateLabels, arg \in BOOLEAN :
           /\ \A k \in 1..Len(gates) : gates[k] # label
           /\ gates' = Append(gates, label)
           /\ isActive' = [l \in DOMAIN isActive \cup {label} |->
                              IF l = label THEN arg ELSE isActive[l]]
           /\ _isActive' = [l \in DOMAIN _isActive \cup {label} |->
                              IF l = label THEN arg ELSE _isActive[l]]
           /\ templateGateActive' = arg
           /\ updates' = updates \o updatesOfSetIsActive(settings, <<label>>, arg)
           /\ lastSetIsActive' = [made |-> TRUE, label |-> label, value |-> arg]
    /\ lastCommand' = "construct"
    /\ commands' = commands + 1
    /\ UNCHANGED <<settings, coreVars, scanVars, filesVars, customVars>>

\* gate.activate(): setIsActive(true)
activateGate ==
    /\ commands < MaxCommands
    /\ \E k \in 1..Len(gates) : SetIsActiveOf(gates[k], TRUE)
    /\ lastCommand' = "activate"
    /\ commands' = commands + 1
    /\ UNCHANGED <<gates, isActive, settings, coreVars, scanVars, filesVars,
                   customVars>>

\* gate.deactivate(): setIsActive(false)
deactivateGate ==
    /\ commands < MaxCommands
    /\ \E k \in 1..Len(gates) : SetIsActiveOf(gates[k], FALSE)
    /\ lastCommand' = "deactivate"
    /\ commands' = commands + 1
    /\ UNCHANGED <<gates, isActive, settings, coreVars, scanVars, filesVars,
                   customVars>>

\* this.gates.forEach((gate) => { return gate.setIsActive(true); })
activeAllGates ==
    /\ commands < MaxCommands
    /\ gates # <<>>
    /\ _isActive' = [l \in DOMAIN _isActive |-> TRUE]
    /\ templateGateActive' = contextOfIsActive(gates[Len(gates)], TRUE)
    /\ updates' = updates \o updatesOfSetIsActive(settings, gates, TRUE)
    /\ lastSetIsActive' = [made |-> TRUE, label |-> gates[Len(gates)], value |-> TRUE]
    /\ lastCommand' = "activeAllGates"
    /\ commands' = commands + 1
    /\ UNCHANGED <<gates, isActive, settings, coreVars, scanVars, filesVars,
                   customVars>>

\* the editor completes the oldest configuration update: the value it was
\* requested with is persisted
CompleteUpdate ==
    /\ updates # <<>>
    /\ settings' = Head(updates)
    /\ updates' = Tail(updates)
    /\ UNCHANGED <<gates, isActive, _isActive, templateGateActive, lastSetIsActive,
                   lastCommand, commands, coreVars, scanVars, filesVars,
                   customVars>>

NextGateObjects ==
    \/ ConstructGate
    \/ activateGate
    \/ deactivateGate
    \/ activeAllGates
    \/ CompleteUpdate

SpecGateObjects == InitGateObjects /\ [][NextGateObjects]_vars

(***************************************************************************)
(* GateFunctions.getFiles and CustomGate.getFiles.  A file name is a       *)
(* string like any other; a workspace folder or search path is named by a  *)
(* letter, and FilesUnder gives what getAllFilesSync finds under it.       *)
(***************************************************************************)
MaxFolders == 2
MaxSaved == 2

\* String.prototype.endsWith
endsWith(s, suffix) ==
    /\ Len(s) >= Len(suffix)
    /\ SubSeq(s, Len(s) - Len(suffix) + 1, Len(s)) = suffix

Yaml == <<".", "y", "a", "m", "l">>
Json == <<".", "j", "s", "o", "n">>

F_yaml == <<"f">> \o Yaml
G_json == <<"g">> \o Json
H_txt == <<"h", ".", "t", "x", "t">>
E_json == <<"e">> \o Json

Folders == {"A", "B"}

\* getAllFilesSync(path)
FilesUnder(path) == IF path = "A" THEN <<F_yaml, G_json, H_txt>> ELSE <<E_json>>

\* for (let fileExtension of searchSettings.fileExtension)
\*     if (filename.endsWith(fileExtension)) _files.push(filename)
pushedFor(filename, fileExtension) ==
    LET matching == SelectSeq(fileExtension, LAMBDA e : endsWith(filename, e))
    IN  [k \in 1..Len(matching) |-> filename]

\* GateFunctions.getFiles(searchSettings, files): for every path, every
\* candidate file name (the files given, or those under the path), every
\* extension
getFiles(searchSetting, given, folders) ==
    LET myPath == folders
        paths == IF searchSetting.pathToSearch.defined THEN searchSetting.pathToSearch.value
                 ELSE myPath
        candidates(path) == IF Len(given) > 0 THEN given ELSE FilesUnder(path)
    IN  Concat([p \in 1..Len(paths) |->
                   Concat([k \in 1..Len(candidates(paths[p])) |->
                              pushedFor(candidates(paths[p])[k], searchSetting.fileExtension)])])

\* sequences without repetition
Distinct(S, n) ==
    {q \in SeqsUpTo(S, n) : \A i, j \in 1..Len(q) : i # j => q[i] # q[j]}

FolderChoices == Distinct(Folders, MaxFolders)

SavedChoices == Distinct({F_yaml, G_json, H_txt}, MaxSaved)

\* whispers asks for [".yaml", ".json"] and gives no path to search
SearchSettingsChoices ==
    [fileExtension : {<<Yaml, Json>>, <<Json>>},
     pathToSearch : {[defined |-> FALSE, value |-> <<>>]}
                        \cup [defined : {TRUE}, value : FolderChoices]]

InitGetFiles ==
    /\ files \in SavedChoices
    /\ workspaceFolders \in FolderChoices
    /\ searchSettings \in SearchSettingsChoices
    /\ _files = <<>>
    /\ savedFiles = <<>>
    /\ fpc = "start"
    /\ ScanIdle
    /\ GateObjectsIdle
    /\ CustomGateIdle
    /\ LocatorIdle
    /\ NoLookups
    /\ NormaliserIdle
    /\ GatesIdle

\* CustomGate.getFiles(searchSettings): the files found for this.files, and
\* this.files emptied
getFilesOfGate ==
    /\ fpc = "start"
    /\ _files' = getFiles(searchSettings, files, workspaceFolders)
    /\ savedFiles' = files
    /\ files' = <<>>
    /\ fpc' = "done"
    /\ UNCHANGED <<workspaceFolders, searchSettings, coreVars, scanVars, gateObjVars,
                   customVars>>

NextGetFiles == getFilesOfGate

SpecGetFiles == InitGetFiles /\ [][NextGetFiles]_vars

(***************************************************************************)
(* One CustomGate, the whispers gate, in a workspace of one folder.  A     *)
(* result of a scan is kept as the path of its file and the number of the  *)
(* scan that found it.  this, as far as the operations below change it, is *)
(* the record o; a scan that scanData started and that has not resolved is *)
(* an entry of scans, with the continuation its caller attached.           *)
(***************************************************************************)
CustomLabel == "whispers"
labels == <<"secrets">>

Schemes == {"file", "untitled"}
SavedDocuments == {F_yaml, G_json}

This ==
    [files |-> files, gateScanData |-> gateScanData, scans |-> scans,
     scanCount |-> scanCount, thrown |-> thrown, pushed |-> 0, refreshed |-> 0]

\* scanData() up to its first await, the one of getFiles: the candidates are
\* taken from this.files, which getFiles empties
scanDataCall(o, continuation, before) ==
    [o EXCEPT !.files = <<>>,
              !.scanCount = @ + 1,
              !.scans = Append(@, [then |-> continuation,
                                   candidates |-> getFiles(searchSettings, o.files,
                                                           workspaceFolders),
                                   saved |-> o.files,
                                   before |-> before,
                                   id |-> o.scanCount + 1])]

\* the callback given to filter has a block body without a return
keptByRefresh(element, saved) == FALSE

\* this.gateScanData?.data?.filter((element) => {...})
filterResults(data, saved) == SelectSeq(data, LAMBDA element : keptByRefresh(element, saved))

\* refresh(): nothing without files; a TypeError when there is no scan data
\* to assign to; else the filtered results, a rescan, and the files emptied
refresh(o) ==
    IF Len(o.files) > 0
    THEN IF ~o.gateScanData.defined
         THEN [o EXCEPT !.thrown = @ \cup {"refresh"}]
         ELSE LET results == filterResults(o.gateScanData.data, o.files)
                  filtered == [o EXCEPT !.gateScanData.data = results]
              IN  [scanDataCall(filtered, "refresh", o.gateScanData.data)
                       EXCEPT !.files = <<>>]
    ELSE o

\* the callback one listenerSaveEvent() registered
onDidSaveTextDocument(o, fileName, scheme) ==
    LET noted == IF scheme = "file"
                 THEN [o EXCEPT !.files = Append(@, fileName), !.pushed = @ + 1]
                 ELSE o
    IN  IF Len(noted.files) > 0
        THEN refresh([noted EXCEPT !.refreshed = @ + 1])
        ELSE noted

\* the editor calls every registered callback, in the order of registration
RECURSIVE fireListeners(_, _, _, _)
fireListeners(o, n, fileName, scheme) ==
    IF n = 0 THEN o
    ELSE fireListeners(onDidSaveTextDocument(o, fileName, scheme), n - 1, fileName, scheme)

\* what a whispers scan of the candidates resolves to: one ResultsList, with
\* an entry for every candidate when the service found secrets
GateDataOf(scanned, found) ==
    [defined |-> TRUE,
     data |-> [i \in 1..Len(labels) |->
                  [label |-> labels[i],
                   result |-> IF found
                              THEN [j \in 1..Len(scanned.candidates) |->
                                       [filePath |-> scanned.candidates[j],
                                        scan |-> scanned.id]]
                              ELSE <<>>]]]

\* this.gateScanData?.data[index]?.result ? (a concat whose value is dropped)
\*     : this.gateScanData.data[index] = new ResultsList(...)
mergedAfterRescan(current, data) ==
    [index \in 1..Len(labels) |->
        IF index <= Len(current) THEN current[index] ELSE data.data[index]]

RemoveAt(q, k) == SubSeq(q, 1, k - 1) \o SubSeq(q, k + 1, Len(q))

\* new WhispersGate(): the Gate constructor's setIsActive(false), and the
\* first listenerSaveEvent()
InitCustomGate ==
    /\ gates = <<CustomLabel>>
    /\ isActive = [l \in {CustomLabel} |-> FALSE]
    /\ _isActive = [l \in {CustomLabel} |-> FALSE]
    /\ templateGateActive = FALSE
    /\ settings = {}
    /\ updates = updatesOfSetIsActive({}, <<CustomLabel>>, FALSE)
    /\ lastSetIsActive = [made |-> TRUE, label |-> CustomLabel, value |-> FALSE]
    /\ lastCommand = "construct"
    /\ commands = 0
    /\ files = <<>>
    /\ workspaceFolders = <<"A">>
    /\ searchSettings = [fileExtension |-> <<Yaml, Json>>,
                         pathToSearch |-> [defined |-> FALSE, value |-> <<>>]]
    /\ _files = <<>>
    /\ savedFiles = <<>>
    /\ fpc = "off"
    /\ gateScanData = [defined |-> FALSE, data |-> <<>>]
    /\ listeners = 1
    /\ scans = <<>>
    /\ scanCount = 0
    /\ thrown = {}
    /\ lastSave = [made |-> FALSE, scheme |-> "", pushed |-> 0, refreshed |-> 0]
    /\ lastRefresh = [made |-> FALSE, before |-> <<>>, saved |-> <<>>, id |-> 0,
                      after |-> <<>>]
    /\ children = [kind |-> "none", labels |-> <<>>, active |-> FALSE,
                   nonEmpty |-> FALSE]
    /\ ScanIdle
    /\ LocatorIdle
    /\ NoLookups
    /\ NormaliserIdle
    /\ GatesIdle

\* CustomGate.activate()
activate ==
    /\ commands < MaxCommands
    /\ SetIsActiveOf(CustomLabel, TRUE)
    /\ LET o == scanDataCall(This, "activate", gateScanData.data)
       IN  /\ files' = o.files
           /\ scans' = o.scans
           /\ scanCount' = o.scanCount
    /\ listeners' = listeners + 1
    /\ lastCommand' = "activate"
    /\ commands' = commands + 1
    /\ UNCHANGED <<gates, isActive, settings, gateScanData, thrown, lastSave,
                   lastRefresh, children, workspaceFolders, searchSettings, _files,
                   savedFiles, fpc, coreVars, scanVars>>

\* CustomGate.deactivate()
deactivate ==
    /\ commands < MaxCommands
    /\ SetIsActiveOf(CustomLabel, FALSE)
    /\ IF gateScanData.defined
       THEN /\ gateScanData' = [gateScanData EXCEPT !.data = <<>>]
            /\ UNCHANGED thrown
       ELSE /\ thrown' = thrown \cup {"deactivate"}
            /\ UNCHANGED gateScanData
    /\ lastCommand' = "deactivate"
    /\ commands' = commands + 1
    /\ UNCHANGED <<gates, isActive, settings, listeners, scans, scanCount, lastSave,
                   lastRefresh, children, filesVars, coreVars, scanVars>>

\* the user saves a document: workspace.onDidSaveTextDocument fires
SaveTextDocument ==
    /\ commands < MaxCommands
    /\ \E fileName \in SavedDocuments, scheme \in Schemes :
           LET o == fireListeners(This, listeners, fileName, scheme)
           IN  /\ files' = o.files
               /\ gateScanData' = o.gateScanData
               /\ scans' = o.scans
               /\ scanCount' = o.scanCount
               /\ thrown' = o.thrown
               /\ lastSave' = [made |-> TRUE, scheme |-> scheme, pushed |-> o.pushed,
                               refreshed |-> o.refreshed]
    /\ lastCommand' = "save"
    /\ commands' = commands + 1
    /\ UNCHANGED <<gates, isActive, _isActive, templateGateActive, settings, updates,
                   lastSetIsActive, listeners, lastRefresh, children,
                   workspaceFolders, searchSettings, _files, savedFiles, fpc,
                   coreVars, scanVars>>

\* the promise of one scanData() resolves and the continuation attached to
\* it runs: activate's takes the data, refresh's fills what is missing
ScanResolves ==
    /\ \E k \in 1..Len(scans), found \in BOOLEAN :
           LET scanned == scans[k]
               data == GateDataOf(scanned, found)
           IN  /\ scans' = RemoveAt(scans, k)
               /\ IF scanned.then = "activate"
                  THEN /\ gateScanData' = data
                       /\ UNCHANGED lastRefresh
                  ELSE /\ gateScanData' =
                              [gateScanData EXCEPT
                                  !.data = mergedAfterRescan(gateScanData.data, data)]
                       /\ lastRefresh' =
                              [made |-> TRUE, before |-> scanned.before,
                               saved |-> scanned.saved, id |-> scanned.id,
                               after |-> mergedAfterRescan(gateScanData.data, data)]
    /\ UNCHANGED <<gateObjVars, filesVars, listeners, scanCount, thrown, lastSave,
                   children, coreVars, scanVars>>

\* for (let item of resultArr) if (item.data.result.length > 0) return resultArr
RECURSIVE childrenFrom(_, _)
childrenFrom(data, index) ==
    IF index > Len(labels)
    THEN [kind |-> "No results have been found", labels |-> <<>>]
    ELSE LET found == SelectSeq(data, LAMBDA e : e.label = labels[index])
         IN  IF found = <<>>
             THEN [kind |-> "TypeError", labels |-> <<>>]
             ELSE IF Len(found[1].result) > 0
                  THEN [kind |-> "categories", labels |-> labels]
                  ELSE childrenFrom(data, index + 1)

\* CustomGate.getMoreChildren(element)
getMoreChildren ==
    /\ LET returned ==
               IF _isActive[CustomLabel]
               THEN childrenFrom(IF gateScanData.defined THEN gateScanData.data
                                 ELSE <<>>, 1)
               ELSE [kind |-> "empty", labels |-> <<>>]
       IN  children' = [kind |-> returned.kind, labels |-> returned.labels,
                        active |-> _isActive[CustomLabel],
                        nonEmpty |-> \E i \in 1..Len(gateScanData.data) :
                                        gateScanData.data[i].result # <<>>]
    /\ UNCHANGED <<gateObjVars, filesVars, gateScanData, listeners, scans, scanCount,
                   thrown, lastSave, lastRefresh, coreVars, scanVars>>

NextCustomGate ==
    \/ activate
    \/ deactivate
    \/ SaveTextDocument
    \/ ScanResolves
    \/ getMoreChildren
    \/ CompleteUpdate

SpecCustomGate == InitCustomGate /\ [][NextCustomGate]_vars

(***************************************************************************)
(* What the locator claims speak about                                     *)
(***************************************************************************)
Last(s) == s[Len(s)]

\* the child region of line i: the following lines of greater depth, up to
\* the first line whose depth is that of line i or lower
ChildRegion(depths, i) ==
    {j \in (i + 1)..Len(depths) : \A m \in (i + 1)..j : depths[m] > depths[i]}

\* every way the segment sequence occurs among the candidate lines: one line
\* per segment, each inside the child region of the one before
RECURSIVE OccurrencesIn(_, _, _, _)
OccurrencesIn(lines, depths, segs, candidates) ==
    IF segs = <<>> THEN {<<>>}
    ELSE UNION { {<<i>> \o rest :
                     rest \in OccurrencesIn(lines, depths, Tail(segs),
                                            ChildRegion(depths, i))} :
                 i \in {j \in candidates : KeyToken(lines[j]) = Head(segs)} }

Occurrences(lines, segs) ==
    IF segs = <<>> THEN {}
    ELSE OccurrencesIn(lines, Depths(lines), segs, 1..Len(lines))

Present(lines, segs) == Occurrences(lines, segs) # {}

\* the buffer positions at which the sequence ends
OccurrenceEnds(lines, segs) == {Last(o) : o \in Occurrences(lines, segs)}

\* every segment name is the key of exactly one line
KeysUnique(lines, segs) ==
    \A t \in 1..Len(segs) :
        Cardinality({j \in 1..Len(lines) : KeyToken(lines[j]) = segs[t]}) = 1

Calls == 1..Len(lookups)

\* the result is the line at buffer position i of the call's document
ReturnsLine(call, i) ==
    /\ call.result.requestedLine = call.arg.base + i - 1
    /\ call.result.numOfTabs = Depths(call.arg.lines)[i]

C3_AbsentYieldsMinusOne ==
    \A k \in Calls :
        ~Present(lookups[k].arg.lines, lookups[k].segs) =>
            lookups[k].result.requestedLine = -1

C3_Witness ==
    /\ fileLines = ScenarioLines
    /\ searchSentence = <<K_spec, K_volumes>>
    /\ Len(lookups) >= 1
    /\ lookups[1].result.requestedLine = -1

(***************************************************************************)
(* C8                                                                      *)
(***************************************************************************)
\* C8: in the scenario document the segments [spec, containers,
\* securityContext, runAsUser] are located at line index 3, depth 3.
C8_ScenarioLineThreeDepthThree ==
    (fileLines = ScenarioLines /\ searchSentence = ScenarioSegments /\ Len(lookups) >= 1) =>
        /\ lookups[1].result.requestedLine = 3
        /\ lookups[1].result.numOfTabs = 3

C8_Witness ==
    /\ fileLines = ScenarioLines
    /\ searchSentence = ScenarioSegments
    /\ Len(lookups) >= 1
    /\ lookups[1].result.requestedLine = 3

(***************************************************************************)
(* C9                                                                      *)
(***************************************************************************)
\* s is t with some lines left out, the order of the others kept
RECURSIVE IsSubsequence(_, _)
IsSubsequence(s, t) ==
    IF s = <<>> THEN TRUE
    ELSE IF t = <<>> THEN FALSE
    ELSE IF Head(s) = Head(t) THEN IsSubsequence(Tail(s), Tail(t))
    ELSE IsSubsequence(s, Tail(t))

\* a buffer derived from the original as a suffix
SuffixDerived(buffer) ==
    /\ buffer.base \in 0..Len(fileLines)
    /\ buffer.lines = SubSeq(fileLines, buffer.base + 1, Len(fileLines))
    /\ IsSubsequence(buffer.lines, fileLines)

NormalisedKubesec == npc = "done" /\ dialect = "kubesec"
NormalisedWhispers == npc = "done" /\ dialect = "whispers"

RECURSIVE SkipWhiteSpace(_)
SkipWhiteSpace(s) ==
    IF s # <<>> /\ Head(s) \in WhiteSpace THEN SkipWhiteSpace(Tail(s)) ELSE s

RECURSIVE TakeToken(_)
TakeToken(s) ==
    IF s = <<>> \/ Head(s) \in WhiteSpace THEN <<>>
    ELSE <<Head(s)>> \o TakeToken(Tail(s))

\* the first whitespace-delimited token of a text
FirstWhitespaceToken(s) == TakeToken(SkipWhiteSpace(s))

WhitespaceOnly(s) == \A i \in 1..Len(s) : s[i] \in WhiteSpace

(***************************************************************************)
(* C4                                                                      *)
(***************************************************************************)
\* C4: `.spec .containers[] .securityContext .runAsUser -gt 10000`
\* normalises to exactly [spec, containers, securityContext, runAsUser].
C4_RunAsUserSelectorFourSegments ==
    (NormalisedKubesec /\ selector = RunAsUserSelector) =>
        segments = <<K_spec, K_containers, K_securityContext, K_runAsUser>>

(***************************************************************************)
(* C5                                                                      *)
(***************************************************************************)
\* C5: the normalised sequence is exactly [metadata] if the first token
\* contains `metadata`, and a selector whose first token does not contain
\* it is never collapsed.
C5_MetadataCollapsesIffFirstToken ==
    NormalisedKubesec =>
        LET first == SelectorTokens(selector)[1]
        IN  /\ Includes(first, K_metadata) => segments = <<K_metadata>>
            /\ ~Includes(first, K_metadata) => segments # <<K_metadata>>

(***************************************************************************)
(* C6                                                                      *)
(***************************************************************************)
\* C6: the segment sequence of a secret fragment (one that holds a token at
\* all) is exactly one segment, the fragment's first whitespace-delimited
\* token.
C6_SecretFirstWhitespaceToken ==
    (NormalisedWhispers /\ ~WhitespaceOnly(selector)) =>
        segments = <<FirstWhitespaceToken(selector)>>

(***************************************************************************)
(* C7                                                                      *)
(***************************************************************************)
\* C7: normalisation never throws, and an empty or whitespace-only selector
\* normalises to the empty segment sequence.
C7_NeverThrowsEmptyGivesNoSegments ==
    NormalisedKubesec =>
        /\ ~threw
        /\ WhitespaceOnly(selector) => segments = <<>>

(***************************************************************************)
(* C10                                                                     *)
(***************************************************************************)
\* the positions in the log of the lookups a gate made for a file
LookupsOf(gate, file) ==
    {k \in 1..Len(lookups) : lookups[k].gate = gate /\ lookups[k].file = file}

\* C10: in every gate the lookups of one file are chained: the first one
\* receives the file's full line sequence and each later one the remaining
\* document that the previous lookup of that file returned.
C10_LookupsOfAFileAreChained ==
    gpc.kubesec # "off" =>
        \A gate \in {"kubesec", "whispers"} : \A file \in FileNames :
            \A k \in LookupsOf(gate, file) :
                LET before == {j \in LookupsOf(gate, file) : j < k}
                IN  IF before = {}
                    THEN lookups[k].arg = MkDocument(readFileByLines(fileText[file]))
                    ELSE lookups[k].arg =
                             lookups[CHOOSE j \in before : \A i \in before : i <= j]
                                 .result.fileToSearchIn

(***************************************************************************)
(* C11                                                                     *)
(***************************************************************************)
\* the lookups of the log that returned -1
NotLocated == {k \in 1..Len(lookups) : lookups[k].result.requestedLine = -1}

\* C11: whenever a lookup of a gate (kubesec or whispers) returns -1, the
\* gate shows a not-found message for it, and no highlight, jump or recorded
\* location is ever at line -1.
C11_MinusOneIsReportedNeverRecorded ==
    gpc.kubesec # "off" =>
        /\ \A gate \in {"kubesec", "whispers"} :
               Cardinality({k \in NotLocated : lookups[k].gate = gate}) <=
               Cardinality({i \in 1..Len(shown) : shown[i][1] = NotFoundMessage})
        /\ \A h \in 1..Len(highlights) : highlights[h].requestedLine # -1
        /\ \A k \in 1..Len(secrets) : \A m \in 1..Len(secrets[k].messages) :
               secrets[k].messages[m].lineNumber # -1

\* the kubesec half of C11, which the code keeps: one not-found message per
\* lookup of the kubesec gate that returned -1, and no highlight at -1
KubesecReportsNotFound ==
    gpc.kubesec # "off" =>
        /\ Cardinality({k \in NotLocated : lookups[k].gate = "kubesec"}) =
           Cardinality({i \in 1..Len(shown) : shown[i][1] = NotFoundMessage})
        /\ \A h \in 1..Len(highlights) : highlights[h].requestedLine # -1

(***************************************************************************)
(* C12                                                                     *)
(***************************************************************************)
\* the text split on newlines, a single trailing empty line removed
LinesKeepingIndices(text) ==
    LET split == Split(text, "\n")
    IN  IF Last(split) = <<>> THEN SubSeq(split, 1, Len(split) - 1) ELSE split

\* the line sequences that readFileByLines has handed to a callback
LinesRead ==
    {i \in 1..Len(microtasks) :
        microtasks[i].kind \in {"kubesecCallback", "whispersCallback"}}

\* C12: readFileByLines returns the file's lines split on newlines with at
\* most a single trailing empty line removed; every other line, leading
\* blank lines included, stays at its original index.
C12_LinesKeepTheirIndices ==
    \A i \in LinesRead :
        microtasks[i].lines = LinesKeepingIndices(fileText[microtasks[i].file])

(***************************************************************************)
(* C13                                                                     *)
(***************************************************************************)
\* the buffer position of the line a call returned
ReturnedPosition(call) == call.result.requestedLine - call.arg.base + 1

\* C13: a located sequence is matched one line per segment, each line inside
\* the child region of the line that matched the segment before; a later
\* sibling or an unrelated block holding the deeper key is never the result.
C13_NextSegmentInsideChildRegion ==
    \A k \in Calls :
        lookups[k].result.requestedLine # -1 =>
            ReturnedPosition(lookups[k]) \in
                OccurrenceEnds(lookups[k].arg.lines, lookups[k].segs)

\* [a, b] located at the child b of a, the document holding a later sibling
\* b as well, which the next call of the chain does not report
C13_Witness ==
    /\ fileLines = <<Line(0, FALSE, K_a), Line(2, FALSE, K_b), Line(0, FALSE, K_b)>>
    /\ searchSentence = <<K_a, K_b>>
    /\ Len(lookups) >= 2
    /\ lookups[1].result.requestedLine = 1
    /\ lookups[2].result.requestedLine = -1

(***************************************************************************)
(* C14                                                                     *)
(***************************************************************************)
\* the line, de-indented, is the name alone or the name followed by ':'
DeclaresKey(line, name) ==
    LET t == DeIndent(line)
    IN  /\ Len(t) >= Len(name)
        /\ SubSeq(t, 1, Len(name)) = name
        /\ Len(t) > Len(name) => t[Len(name) + 1] = ":"

\* the name occurs in the line without being its key
MerelyContains(line, name) == Includes(line, name) /\ ~DeclaresKey(line, name)

RECURSIVE FirstInOrder(_, _, _, _, _)
FirstInOrder(lines, depths, segs, region, reached) ==
    IF segs = <<>> THEN reached
    ELSE LET satisfying == {j \in region : DeclaresKey(lines[j], Head(segs))}
         IN  IF satisfying = {} THEN 0
             ELSE FirstInOrder(lines, depths, Tail(segs),
                               ChildRegion(depths, Min(satisfying)), Min(satisfying))

\* C15: of the lines of the valid region that satisfy the target segment the
\* first in document order is chosen, for every segment; and two calls on
\* equal inputs return equal results.
C15_FirstInDocumentOrderDeterministic ==
    /\ \A k \in Calls :
           lookups[k].segs # <<>> =>
               LET call == lookups[k]
                   p == FirstInOrder(call.arg.lines, Depths(call.arg.lines), call.segs,
                                     1..Len(call.arg.lines), 0)
               IN  call.result.requestedLine = IF p = 0 THEN -1 ELSE call.arg.base + p - 1
    /\ \A j, k \in Calls :
           (lookups[j].arg = lookups[k].arg /\ lookups[j].segs = lookups[k].segs) =>
               lookups[j].result = lookups[k].result

\* two lines satisfy the first segment and only the second has the child:
\* the first is chosen and the sequence is not found, twice on equal inputs
C15_Witness ==
    /\ fileLines = <<Line(0, FALSE, K_a), Line(0, FALSE, K_a), Line(2, FALSE, K_b)>>
    /\ searchSentence = <<K_a, K_b>>
    /\ Len(lookups) >= 2
    /\ lookups[1].arg = lookups[2].arg
    /\ lookups[1].result.requestedLine = -1
    /\ lookups[2].result.requestedLine = -1

SentenceToClean == DropLeadingDot(selector)

\* the first occurrences (zero-based) of the operator tokens that occur in s
FirstOccurrences(s) ==
    {IndexOf(s, kubesecSelectorInvalidCharcters[k]) :
        k \in {j \in 1..Len(kubesecSelectorInvalidCharcters) :
                  Includes(s, kubesecSelectorInvalidCharcters[j])}}

\* C16: removeInvalidCharctersInSentence with ['|', '==', '-'] returns the
\* prefix of its input that ends just before the earliest first occurrence
\* of any of the three tokens, and the input unchanged when none occurs; a
\* '-' inside a path component truncates too.
C16_PrefixBeforeEarliestOperator ==
    NormalisedKubesec =>
        LET firsts == FirstOccurrences(SentenceToClean)
        IN  truncated = IF firsts = {} THEN SentenceToClean
                        ELSE SubSeq(SentenceToClean, 1, Min(firsts))

\* "a-|": '-' is listed last and occurs first; "a" is what is left
C16_Witness ==
    /\ NormalisedKubesec
    /\ selector = Concat(<<K_a, <<"-">>, <<"|">> >>)
    /\ truncated = K_a
    /\ segments = <<K_a>>

(***************************************************************************)
(* C17                                                                     *)
(***************************************************************************)
EndsWith(s, suffix) ==
    /\ Len(s) >= Len(suffix)
    /\ SubSeq(s, Len(s) - Len(suffix) + 1, Len(s)) = suffix

\* the selector's first token holds `metadata`, which replaces the sequence
CollapsesToMetadata == Includes(SelectorTokens(selector)[1], K_metadata)

\* the token begins with the name of a key
BeginsWithKey(token) ==
    \E key \in {K_a, K_spec, K_containers, K_volumes} : SliceTo(token, Len(key)) = key

\* C17: a first token that ends with `[]`, whatever its key, loses exactly
\* its trailing two characters; a first token that does not end with `[]`
\* is left unchanged.  (Stated for the first tokens that begin with a key.)
C17_ArrayMarkerStrippedFromAnyFirstToken ==
    (NormalisedKubesec /\ ~CollapsesToMetadata
                       /\ BeginsWithKey(SelectorTokens(selector)[1])) =>
        LET first == SelectorTokens(selector)[1]
        IN  segments[1] = IF EndsWith(first, ArrayMarker)
                          THEN SubSeq(first, 1, Len(first) - 2)
                          ELSE first

(***************************************************************************)
(* C18                                                                     *)
(***************************************************************************)
\* s without its whitespace characters of any kind
WithoutWhiteSpace(s) == SelectSeq(s, LAMBDA x : x \notin WhiteSpace)

\* the '.'-separated tokens of the selector after dropping one leading '.'
\* and removing all whitespace
DotSeparatedTokens == Split(WithoutWhiteSpace(SentenceToClean), ".")

\* C18: a selector with no operator token, whose first token neither ends
\* with `[]` nor contains `metadata`, normalises to exactly its
\* '.'-separated tokens after dropping one leading '.' and removing all
\* whitespace: spaces, tabs and any other.  (Stated for the selectors that
\* begin with a key.)
C18_PlainSelectorIsItsDotSeparatedTokens ==
    (/\ NormalisedKubesec
     /\ FirstOccurrences(SentenceToClean) = {}
     /\ ~EndsWith(DotSeparatedTokens[1], ArrayMarker)
     /\ ~Includes(DotSeparatedTokens[1], K_metadata)
     /\ BeginsWithKey(DotSeparatedTokens[1])) =>
        segments = DotSeparatedTokens

(***************************************************************************)
(* C19                                                                     *)
(***************************************************************************)
\* C19: no segment of a normalised sequence has an empty name, for every
\* selector of either dialect, among them ".", a selector that starts with
\* an operator token, ".." and a secret fragment that starts with a space.
C19_NoEmptySegmentName ==
    (npc = "done" /\ selector # <<>>) =>
        \A i \in 1..Len(segments) : segments[i] # <<>>

(***************************************************************************)
(* C21                                                                     *)
(***************************************************************************)
\* no line has been examined more than once, so that the pass has taken at
\* most as many steps as the buffer has lines
SinglePass ==
    scan.pc # "off" =>
        /\ \A j \in 1..Len(scan.examined) : scan.examined[j] <= 1
        /\ scan.pc = "done" => scan.result = hierarchySearchInFile(document, searchSentence)

ScanEnded == scan.pc = "done"

\* C21: every locator call terminates, having examined each line of the
\* document at most once (a single pass bounded by the document's length),
\* for every document and segment sequence, documents without indentation
\* and the empty document included.
C21_TerminatesInASinglePass == []SinglePass /\ <>ScanEnded

\* a three-line document in which every line was examined, once, by a call
\* that has ended
C21_Witness ==
    /\ scan.pc = "done"
    /\ Len(fileLines) = MaxLines
    /\ \A j \in 1..Len(scan.examined) : scan.examined[j] = 1
    /\ Len(searchSentence) = 2
    /\ scan.result.requestedLine = 2

(***************************************************************************)
(* C22                                                                     *)
(***************************************************************************)
\* the secrets the scanner reported for a file
ReportedIn(file) ==
    LET i == CHOOSE j \in 1..Len(whispersResultArr) : whispersResultArr[j].name = file
    IN  whispersResultArr[i].secrets

\* the secrets pushed into the k-th FileMessages entry, in order
PushedInto(k) ==
    [m \in 1..Len(secrets[k].messages) |-> secrets[k].messages[m].message]

C23_ResolvedDataHoldsEverySecret ==
    gpc.whispers = "resolved" =>
        /\ \E i \in 1..Len(shown) : shown[i][1] = ReadyMessage
        /\ \A k \in 1..Len(secrets) : PushedInto(k) = ReportedIn(secrets[k].filePath)

(***************************************************************************)
(* C24                                                                     *)
(***************************************************************************)
\* C24: after activeAllGates, every pending settings update having
\* completed, the persisted activity settings map the label of every gate
\* to true: the setIsActive calls of different gates do not overwrite each
\* other's entry.
C24_AllGatesPersistedActive ==
    (lastCommand = "activeAllGates" /\ updates = <<>>) =>
        \A k \in 1..Len(gates) : <<gates[k], TRUE>> \in settings

(***************************************************************************)
(* C28                                                                     *)
(***************************************************************************)
\* C28: after any sequence of constructions, activate and deactivate calls
\* the templateGateActive context key last issued by setIsActive has the
\* value passed to that call, and getIsActive() returns that value.
C28_ContextKeyIsTheValueSet ==
    lastSetIsActive.made =>
        /\ templateGateActive = lastSetIsActive.value
        /\ _isActive[lastSetIsActive.label] = lastSetIsActive.value

(***************************************************************************)
(* C30                                                                     *)
(***************************************************************************)
Range(q) == {q[i] : i \in 1..Len(q)}

\* the paths searched: the settings' pathToSearch, or the workspace folders
SearchPaths ==
    IF searchSettings.pathToSearch.defined THEN searchSettings.pathToSearch.value
    ELSE workspaceFolders

\* the candidates: the saved files given when there are any, and otherwise
\* all files under the search paths
Candidates ==
    IF savedFiles # <<>> THEN Range(savedFiles)
    ELSE UNION {Range(FilesUnder(SearchPaths[p])) : p \in 1..Len(SearchPaths)}

\* C30: getFiles returns exactly the candidate file names that end with one
\* of the configured extensions, each of them once, whatever the number of
\* search paths or workspace folders.
C30_MatchingCandidatesOnce ==
    fpc = "done" =>
        LET expected == {c \in Candidates :
                            \E e \in Range(searchSettings.fileExtension) : endsWith(c, e)}
        IN  /\ Range(_files) = expected
            /\ Len(_files) = Cardinality(expected)

(***************************************************************************)
(* C25                                                                     *)
(***************************************************************************)
\* no scan and no settings update of the gate is pending
NothingPending == scans = <<>> /\ updates = <<>>

HoldsNoResults ==
    \A i \in 1..Len(gateScanData.data) : gateScanData.data[i].result = <<>>

\* C25: whenever the gate is inactive and nothing of it is pending, its
\* gateScanData holds no results (a scan of activate() resolving after a
\* deactivate() does not bring them back), and deactivate() never throws,
\* also when no scan has produced data yet.
C25_InactiveGateHoldsNoResults ==
    /\ (~_isActive[CustomLabel] /\ NothingPending) => HoldsNoResults
    /\ "deactivate" \notin thrown

(***************************************************************************)
(* C26                                                                     *)
(***************************************************************************)
\* C26: a save of a file-scheme document adds the file to the pending files
\* exactly once and triggers exactly one refresh, however often the gate
\* was activated before.
C26_OnePushOneRefreshPerSave ==
    (lastSave.made /\ lastSave.scheme = "file") =>
        (lastSave.pushed = 1 /\ lastSave.refreshed = 1)

(***************************************************************************)
(* C27                                                                     *)
(***************************************************************************)
ResultsOf(data) == UNION {Range(data[i].result) : i \in 1..Len(data)}

\* C27: when the rescan of a refresh has completed, the results of every
\* file that was not saved are those from before the refresh, and the
\* results of every saved file are those of the new scan.
C27_RefreshKeepsUnsavedFilesResults ==
    lastRefresh.made =>
        /\ \A e \in ResultsOf(lastRefresh.before) :
               e.filePath \notin Range(lastRefresh.saved)
                   => e \in ResultsOf(lastRefresh.after)
        /\ \A e \in ResultsOf(lastRefresh.after) :
               e.filePath \in Range(lastRefresh.saved) => e.scan = lastRefresh.id

(***************************************************************************)
(* C29                                                                     *)
(***************************************************************************)
\* C29: getMoreChildren returns the empty list of an inactive gate; of an
\* active one a Category per label, in the labels' order, when some
\* category has results, and the single item "No results have been found"
\* otherwise; it never throws, also with no scan data yet.
C29_ChildrenOfTheGate ==
    children.kind # "none" =>
        /\ children.kind # "TypeError"
        /\ ~children.active => children.kind = "empty"
        /\ (children.active /\ children.nonEmpty)
               => (children.kind = "categories" /\ children.labels = labels)
        /\ (children.active /\ ~children.nonEmpty)
               => children.kind = "No results have been found"

====
